---- MODULE Spec2Model ----
(***************************************************************************)
(* Output dispatch of libsigrokdecode's Decoder type (type_decoder.c):     *)
(* Decoder.add registers an output stream on a decoder instance,           *)
(* Decoder.put routes one emission either to the annotation callback or    *)
(* to decode() of every stacked decoder instance, convert_pyobj validates  *)
(* an annotation payload.                                                  *)
(***************************************************************************)
EXTENDS Integers, Sequences, FiniteSets, TLC

\* ------------------------------------------------------------------ bounds
\* Number of decoder instances of the session; instance i is stacked under
\* the instances i+1 and i+2 (when they exist).
NumInst == 3
\* Total number of output streams registered in the session.
MaxStreams == 2
\* Nesting depth of puts that are in progress on the call stack.
MaxDepth == 2

\* --------------------------------------------------------- program constants
SRD_OUTPUT_ANN == 0
SRD_OUTPUT_PROTO == 1
SRD_OUTPUT_BINARY == 2

SRD_OK == "SRD_OK"
SRD_ERR_PYTHON == "SRD_ERR_PYTHON"

\* A C pointer that may be NULL is a sequence of length at most one.
NULL == <<>>

\* ------------------------------------------------------------ Python objects
\* A Python integer is unbounded: it is kept as its two's-complement 32-bit
\* words, least significant first, in canonical (shortest) form; every word
\* is written as the signed value of its 32 bits.  <<5>> is 5, <<-1>> is -1,
\* <<0, 1>> is 2^32, <<0, 0, 1>> is 2^64.
PyLong(words) == [tp |-> "int", long |-> words, str |-> "", items |-> <<>>]
PyStr(s) == [tp |-> "str", long |-> <<>>, str |-> s, items |-> <<>>]
PyList(xs) == [tp |-> "list", long |-> <<>>, str |-> "", items |-> xs]
PyTuple(xs) == [tp |-> "tuple", long |-> <<>>, str |-> "", items |-> xs]
PyDict == [tp |-> "dict", long |-> <<>>, str |-> "", items |-> <<>>]

PyList_Check(obj) == obj.tp = "list"
PyTuple_Check(obj) == obj.tp = "tuple"
PyLong_Check(obj) == obj.tp = "int"

\* PyList_Size is the list accessor: on anything that is not a list it
\* answers -1.
PyList_Size(obj) == IF PyList_Check(obj) THEN Len(obj.items) ELSE -1

\* PyList_GetItem(obj, i) of a list obj with 0 <= i < size.
PyList_GetItem(obj, i) == obj.items[i + 1]

\* PyLong_AsLong: the value as a C long of long_bits bits, -1 when it does
\* not fit.  The result is again a sequence of 32-bit words.
PyLong_AsLong(obj, bits) ==
    IF Len(obj.long) * 32 <= bits THEN obj.long ELSE <<-1>>

\* Assignment of a C long to an int keeps its low 32 bits.
LongToInt(words) == words[1]

\* g_slist_nth as it would be if an index past the end answered the last
\* link.
g_slist_nth_clamped(list, n) ==
    IF n < 0 \/ list = <<>> THEN <<>>
    ELSE IF n < Len(list) THEN SubSeq(list, n + 1, Len(list))
    ELSE <<list[Len(list)]>>

\* g_slist_nth as it would be if links were counted from 1.
g_slist_nth_from1(list, n) ==
    IF n >= 1 /\ n <= Len(list) THEN SubSeq(list, n, Len(list)) ELSE <<>>

\* g_slist_nth(list, n): the list from its n-th link on (n counted from 0),
\* NULL when there is no such link.  n is a guint: a negative int converts
\* to a value beyond any list.
g_slist_nth(list, n) ==
    IF n >= 0 /\ n < Len(list) THEN SubSeq(list, n + 1, Len(list)) ELSE NULL

\* g_slist_nth_data as it would be if the last link were never reached.
g_slist_nth_data_short(list, n) ==
    IF n >= 0 /\ n < Len(list) - 1 THEN <<list[n + 1]>> ELSE <<>>

\* g_slist_nth_data(list, n): the data of that link, NULL when absent.
g_slist_nth_data(list, n) ==
    IF g_slist_nth(list, n) = NULL THEN NULL ELSE <<Head(g_slist_nth(list, n))>>

\* py_strlist_to_char: the list's items as an owned sequence of strings;
\* fails when an item is not a string.
py_strlist_to_char(py_strlist) ==
    IF \A i \in 1..Len(py_strlist.items) : py_strlist.items[i].tp = "str"
    THEN [ret |-> SRD_OK,
          out |-> <<[i \in 1..Len(py_strlist.items) |-> py_strlist.items[i].str]>>]
    ELSE [ret |-> SRD_ERR_PYTHON, out |-> NULL]

\* ------------------------------------------------------------ decoder data
\* di->decoder->annotations: the annotation formats the decoder declared
\* when it was loaded.
annotations(di) == <<"bit", "byte">>

\* One srd_err / catch_exception line: the message and the number printed
\* in it (an output ID, a format id, a type value, an instance).
Msg(text, n) == [msg |-> text, n |-> n]

\* ------------------------------------------------------------ convert_pyobj
\* The converter's result: its return code, the data unit as the writes
\* through ann_format and ann leave it, and what it logged.
ConvFail(pdata, text, n) ==
    [ret |-> SRD_ERR_PYTHON, pdata |-> pdata, log |-> <<Msg(text, n)>>]

convert_pyobj(di, obj, pdata, bits) ==
    IF ~PyList_Check(obj) /\ ~PyTuple_Check(obj)
    THEN ConvFail(pdata, "submitted instead of list", 0)
    ELSE IF PyList_Size(obj) # 2
    THEN ConvFail(pdata, "elements instead of 2", PyList_Size(obj))
    ELSE LET py_int == PyList_GetItem(obj, 0) IN
      IF ~PyLong_Check(py_int)
      THEN ConvFail(pdata, "first element was not an integer", 0)
      ELSE LET ann_id == LongToInt(PyLong_AsLong(py_int, bits)) IN
        IF g_slist_nth_data(annotations(di), ann_id) = NULL
        THEN ConvFail(pdata, "unregistered annotation format", ann_id)
        ELSE LET pd1 == [pdata EXCEPT !.ann_format = ann_id]
                 py_lst == PyList_GetItem(obj, 1) IN
          IF ~PyList_Check(py_lst)
          THEN ConvFail(pd1, "second element was not a list", 0)
          ELSE LET r == py_strlist_to_char(py_lst) IN
            IF r.ret # SRD_OK
            THEN ConvFail(pd1, "second element was malformed", 0)
            ELSE [ret |-> SRD_OK, pdata |-> [pd1 EXCEPT !.data = r.out],
                  log |-> <<>>]

\* -------------------------------------------------------------------- state
VARIABLES
    pd_output,   \* di->pd_output: per instance, its output streams in order
    next_di,     \* di->next_di: per instance, the instances stacked on it
    callbacks,   \* the output types a callback is registered for
    long_bits,   \* width of a C long in this build (LP64: 64, LLP64: 32)
    stack,       \* the Decoder_put calls in progress, innermost last
    done,        \* the Decoder_put / Decoder_add call that returned last,
                 \* until the next call into a decoder begins
    handles      \* per instance, what every add that returned a handle
                 \* was given and returned (history)

vars == <<pd_output, next_di, callbacks, long_bits, stack, done, handles>>

DI == 1..NumInst
\* A Python object that is no decoder instance of the session.
NoInst == 0

\* get_di_by_decobject: the instance whose Python object is self.
get_di_by_decobject(self) == IF self \in DI THEN <<self>> ELSE NULL

\* srd_find_callback: the callback registered for an output type.
srd_find_callback(output_type) ==
    IF output_type \in callbacks THEN <<output_type>> ELSE NULL

\* pd_add: append a stream to the instance's list and answer its index;
\* -1 and no stream when the descriptor cannot be allocated.
pd_add(list, output_type, proto_id, mem) ==
    IF mem
    THEN [pdo_id |-> Len(list),
          list |-> Append(list, [pdo_id |-> Len(list),
                                 output_type |-> output_type,
                                 proto_id |-> proto_id])]
    ELSE [pdo_id |-> -1, list |-> list]

\* The stacking of the session: instance i feeds i+1 and i+2.
Stacked(i) ==
    IF i + 2 <= NumInst THEN <<i + 1, i + 2>>
    ELSE IF i + 1 <= NumInst THEN <<i + 1>> ELSE <<>>

\* The record of a returned call.  ret is "None", "NULL" (call failure) or
\* "int" (value holds the integer).
NoArgs ==
    [ok |-> FALSE, start_sample |-> 0, end_sample |-> 0, output_id |-> 0,
     data |-> PyDict, output_type |-> 0, proto_id |-> ""]

Returned(op, self, args, depth, ret, value, branch, f) ==
    [op |-> op, self |-> self, args |-> args, depth |-> depth,
     ret |-> ret, value |-> value, branch |-> branch,
     pdo |-> f.pdo, log |-> f.log, cb_calls |-> f.cb_calls,
     decode_calls |-> f.decode_calls, allocs |-> f.allocs,
     increfs |-> f.increfs]

\* What a call has done so far: nothing.
Fresh ==
    [pdo |-> NULL, log |-> <<>>, cb_calls |-> <<>>, decode_calls |-> <<>>,
     allocs |-> {}, increfs |-> 0]

\* No call has returned since the last one began.
NoCall == Returned("none", NoInst, NoArgs, 0, "None", 0, "none", Fresh)

Init ==
    /\ pd_output = [i \in DI |-> <<>>]
    /\ next_di = [i \in DI |-> Stacked(i)]
    /\ callbacks \in {{}, {SRD_OUTPUT_ANN}}
    /\ long_bits \in {32, 64}
    /\ stack = <<>>
    /\ done = NoCall
    /\ handles = [i \in DI |-> <<>>]

\* ------------------------------------------------------------------ callers
Top == stack[Len(stack)]

\* The instance whose decode() the innermost put is waiting for.
Callee(f) == next_di[f.self][f.l]

\* The decoder objects whose Python code is running and may call put or
\* add: with no put in progress any decoder the session feeds, otherwise the
\* successor whose decode() was called last.
Running ==
    IF stack = <<>> THEN DI \cup {NoInst}
    ELSE IF Top.pc = "decode" THEN {Callee(Top)} ELSE {}

Streams == LET RECURSIVE Sum(_)
               Sum(i) == IF i = 0 THEN 0 ELSE Len(pd_output[i]) + Sum(i - 1)
           IN Sum(NumInst)

\* --------------------------------------------------------------- Decoder_put
\* The data unit g_try_malloc0 returns: all fields zero.
NewPdata(start_sample, end_sample, pdo) ==
    [start_sample |-> start_sample, end_sample |-> end_sample, pdo |-> pdo,
     ann_format |-> 0, data |-> NULL]

\* The annotation case as it would be without the srd_find_callback test.
PutAnn_unchecked(di, args, f, pdata) ==
    LET c == convert_pyobj(di, args.data, pdata, long_bits) IN
      IF c.ret # SRD_OK
      THEN [f EXCEPT !.log = f.log \o c.log]
      ELSE [f EXCEPT !.cb_calls = Append(f.cb_calls, c.pdata),
                     !.allocs = f.allocs \cup {"ann"}]

\* case SRD_OUTPUT_ANN: convert and feed the callback, when there is one.
PutAnn(di, args, f, pdata) ==
    IF srd_find_callback(pdata.pdo.output_type) = NULL
    THEN f
    ELSE LET c == convert_pyobj(di, args.data, pdata, long_bits) IN
      IF c.ret # SRD_OK
      THEN [f EXCEPT !.log = f.log \o c.log]
      ELSE [f EXCEPT !.cb_calls = Append(f.cb_calls, c.pdata),
                     !.allocs = f.allocs \cup {"ann"}]

\* The binary case as it would be without its srd_err.
PutBinary_silent(f) == f

\* case SRD_OUTPUT_BINARY: only a diagnostic.
PutBinary(f) ==
    [f EXCEPT !.log = Append(@, Msg("SRD_OUTPUT_BINARY not yet supported", 0))]

\* default: a diagnostic naming the type value.
PutDefault(f, pdo) ==
    [f EXCEPT !.log = Append(@, Msg("invalid output type", pdo.output_type))]

\* g_free(pdata); Py_RETURN_NONE.
PutReturn(self, args, depth, branch, f) ==
    Returned("put", self, args, depth, "None", 0, branch,
             [f EXCEPT !.allocs = f.allocs \ {"pdata"}])

\* A failed call: return NULL.
PutFail(self, args, depth, branch, f) ==
    Returned("put", self, args, depth, "NULL", 0, branch, f)

\* Decoder_put from its entry to the first decode() call of the protocol
\* branch, or to its return on every other path.  mem: whether
\* g_try_malloc0 finds memory.
Decoder_put(self, args) ==
    LET depth == Len(stack)
        di == get_di_by_decobject(self)
        l == g_slist_nth(pd_output[self], args.output_id)
        pdo == Head(l)
        pdata == NewPdata(args.start_sample, args.end_sample, pdo)
        f == [Fresh EXCEPT !.pdo = <<pdo>>, !.allocs = {"pdata"}]
    IN
    /\ self \in Running
    /\ UNCHANGED <<pd_output, next_di, callbacks, long_bits, handles>>
    /\ IF di = NULL
       THEN /\ done' = PutFail(self, args, depth, "no instance", Fresh)
            /\ stack' = stack
       ELSE IF ~args.ok
       THEN /\ done' = PutFail(self, args, depth, "bad arguments", Fresh)
            /\ stack' = stack
       ELSE IF l = NULL
       THEN /\ done' = PutFail(self, args, depth, "invalid output ID",
                   [Fresh EXCEPT !.log = <<Msg("invalid output ID",
                                               args.output_id)>>])
            /\ stack' = stack
       ELSE \E mem \in BOOLEAN :
       IF ~mem
       THEN /\ done' = PutFail(self, args, depth, "no memory", Fresh)
            /\ stack' = stack
       ELSE IF pdo.output_type = SRD_OUTPUT_ANN
       THEN /\ done' = PutReturn(self, args, depth, "annotation",
                                 PutAnn(self, args, f, pdata))
            /\ stack' = stack
       ELSE IF pdo.output_type = SRD_OUTPUT_PROTO
       THEN /\ Len(stack) < MaxDepth
            /\ stack' = Append(stack,
                   [self |-> self, args |-> args, l |-> 1, pc |-> "loop",
                    f |-> f])
            /\ done' = NoCall
       ELSE IF pdo.output_type = SRD_OUTPUT_BINARY
       THEN /\ done' = PutReturn(self, args, depth, "binary", PutBinary(f))
            /\ stack' = stack
       ELSE /\ done' = PutReturn(self, args, depth, "invalid output type",
                                 PutDefault(f, pdo))
            /\ stack' = stack

\* The loop as it would be if it called decode() of the emitting instance
\* itself.
CallDecode_self ==
    /\ stack # <<>>
    /\ Top.pc = "loop"
    /\ Top.l <= Len(next_di[Top.self])
    /\ stack' = [stack EXCEPT ![Len(stack)] =
          [@ EXCEPT !.pc = "decode",
                    !.f.increfs = @ + 1,
                    !.f.decode_calls = Append(@,
                        [di |-> Top.self,
                         start_sample |-> Top.args.start_sample,
                         end_sample |-> Top.args.end_sample,
                         data |-> Top.args.data])]]
    /\ done' = NoCall
    /\ UNCHANGED <<pd_output, next_di, callbacks, long_bits, handles>>

\* One turn of the protocol loop: Py_XINCREF the next instance and call its
\* decode(start_sample, end_sample, data).
CallDecode ==
    /\ stack # <<>>
    /\ Top.pc = "loop"
    /\ Top.l <= Len(next_di[Top.self])
    /\ stack' = [stack EXCEPT ![Len(stack)] =
          [@ EXCEPT !.pc = "decode",
                    !.f.increfs = @ + 1,
                    !.f.decode_calls = Append(@,
                        [di |-> next_di[Top.self][Top.l],
                         start_sample |-> Top.args.start_sample,
                         end_sample |-> Top.args.end_sample,
                         data |-> Top.args.data])]]
    /\ done' = NoCall
    /\ UNCHANGED <<pd_output, next_di, callbacks, long_bits, handles>>

\* The loop as it would be if a failed decode() ended it.
DecodeReturns_break(raised) ==
    /\ stack # <<>>
    /\ Top.pc = "decode"
    /\ stack' = [stack EXCEPT ![Len(stack)] =
          [@ EXCEPT !.pc = "loop",
                    !.l = IF raised THEN Len(next_di[Top.self]) + 1 ELSE @ + 1,
                    !.f.log = IF raised
                              THEN Append(@, Msg("calling decode()",
                                                 next_di[Top.self][Top.l]))
                              ELSE @]]
    /\ UNCHANGED <<pd_output, next_di, callbacks, long_bits, done, handles>>

\* The loop as it would be if decode() of the outermost put could return
\* while a nested put is still in progress.
DecodeReturns_outer(raised) ==
    /\ stack # <<>>
    /\ stack[1].pc = "decode"
    /\ stack' = [stack EXCEPT ![1] =
          [@ EXCEPT !.pc = "loop",
                    !.l = @ + 1,
                    !.f.log = IF raised
                              THEN Append(@, Msg("calling decode()",
                                                 next_di[stack[1].self][stack[1].l]))
                              ELSE @]]
    /\ UNCHANGED <<pd_output, next_di, callbacks, long_bits, done, handles>>

\* The loop as it would be if it unlinked each successor from di->next_di
\* once its decode() has returned.
DecodeReturns_consuming(raised) ==
    /\ stack # <<>>
    /\ Top.pc = "decode"
    /\ stack' = [stack EXCEPT ![Len(stack)] =
          [@ EXCEPT !.pc = "loop",
                    !.f.log = IF raised
                              THEN Append(@, Msg("calling decode()",
                                                 next_di[Top.self][Top.l]))
                              ELSE @]]
    /\ next_di' = [next_di EXCEPT ![Top.self] = Tail(@)]
    /\ UNCHANGED <<pd_output, callbacks, long_bits, done, handles>>

\* decode() of the called instance returns: a result, or NULL with an
\* exception, which catch_exception logs; then l = l->next.
DecodeReturns(raised) ==
    /\ stack # <<>>
    /\ Top.pc = "decode"
    /\ stack' = [stack EXCEPT ![Len(stack)] =
          [@ EXCEPT !.pc = "loop",
                    !.l = @ + 1,
                    !.f.log = IF raised
                              THEN Append(@, Msg("calling decode()",
                                                 next_di[Top.self][Top.l]))
                              ELSE @]]
    /\ UNCHANGED <<pd_output, next_di, callbacks, long_bits, done, handles>>

\* The end of the loop as it would be if the put were suspended instead of
\* returning.
PutLoopEnds_suspended ==
    /\ stack # <<>>
    /\ Top.pc = "loop"
    /\ Top.l > Len(next_di[Top.self])
    /\ stack' = [stack EXCEPT ![Len(stack)] = [@ EXCEPT !.pc = "suspended"]]
    /\ UNCHANGED <<pd_output, next_di, callbacks, long_bits, done, handles>>

\* The protocol loop is over: g_free(pdata); Py_RETURN_NONE.
PutLoopEnds ==
    /\ stack # <<>>
    /\ Top.pc = "loop"
    /\ Top.l > Len(next_di[Top.self])
    /\ done' = PutReturn(Top.self, Top.args, Len(stack) - 1, "protocol", Top.f)
    /\ stack' = SubSeq(stack, 1, Len(stack) - 1)
    /\ UNCHANGED <<pd_output, next_di, callbacks, long_bits, handles>>

\* --------------------------------------------------------------- Decoder_add
\* Decoder_add as it would be if a declined registration were reported as a
\* call failure.
Decoder_add_failing(self, args) ==
    LET depth == Len(stack)
        di == get_di_by_decobject(self)
    IN
    /\ self \in Running
    /\ UNCHANGED <<next_di, callbacks, long_bits, stack>>
    /\ IF di = NULL
       THEN /\ done' = Returned("add", self, args, depth, "NULL", 0,
                                "no instance", Fresh)
            /\ UNCHANGED <<pd_output, handles>>
       ELSE IF ~args.ok
       THEN /\ done' = Returned("add", self, args, depth, "NULL", 0,
                                "bad arguments", Fresh)
            /\ UNCHANGED <<pd_output, handles>>
       ELSE \E mem \in BOOLEAN :
         LET r == pd_add(pd_output[self], args.output_type, args.proto_id,
                         mem) IN
            /\ mem => Streams < MaxStreams
            /\ pd_output' = [pd_output EXCEPT ![self] = r.list]
            /\ IF r.pdo_id < 0
               THEN /\ done' = Returned("add", self, args, depth, "NULL", 0,
                                        "no stream", Fresh)
                    /\ handles' = handles
               ELSE /\ done' = Returned("add", self, args, depth, "int",
                                        r.pdo_id, "stream", Fresh)
                    /\ handles' = [handles EXCEPT ![self] = Append(@,
                           [ret |-> r.pdo_id,
                            output_type |-> args.output_type,
                            proto_id |-> args.proto_id])]

\* mem: whether pd_add finds memory for the descriptor.
Decoder_add(self, args) ==
    LET depth == Len(stack)
        di == get_di_by_decobject(self)
    IN
    /\ self \in Running
    /\ UNCHANGED <<next_di, callbacks, long_bits, stack>>
    /\ IF di = NULL
       THEN /\ done' = Returned("add", self, args, depth, "NULL", 0,
                                "no instance", Fresh)
            /\ UNCHANGED <<pd_output, handles>>
       ELSE IF ~args.ok
       THEN /\ done' = Returned("add", self, args, depth, "NULL", 0,
                                "bad arguments", Fresh)
            /\ UNCHANGED <<pd_output, handles>>
       ELSE \E mem \in BOOLEAN :
         LET r == pd_add(pd_output[self], args.output_type, args.proto_id,
                         mem) IN
            /\ mem => Streams < MaxStreams
            /\ pd_output' = [pd_output EXCEPT ![self] = r.list]
            /\ IF r.pdo_id < 0
               THEN /\ done' = Returned("add", self, args, depth, "None", 0,
                                        "no stream", Fresh)
                    /\ handles' = handles
               ELSE /\ done' = Returned("add", self, args, depth, "int",
                                        r.pdo_id, "stream", Fresh)
                    /\ handles' = [handles EXCEPT ![self] = Append(@,
                           [ret |-> r.pdo_id,
                            output_type |-> args.output_type,
                            proto_id |-> args.proto_id])]

\* ------------------------------------------------------------------- inputs
Ann(id, strs) == PyList(<<PyLong(id), PyList(strs)>>)

Emission(start_sample, end_sample, data) ==
    [start_sample |-> start_sample, end_sample |-> end_sample, data |-> data]

\* What the decoders of the stacked session emit: a well-formed annotation
\* and a protocol packet.
ChainEmissions ==
    { Emission(100, 110, Ann(<<0>>, <<PyStr("1")>>)),
      Emission(7, 3, PyStr("raw")) }

\* The payloads a single decoder is tried with: every shape the converter
\* tells apart.
StagePayloads ==
    { Ann(<<0>>, <<PyStr("1")>>),
      Ann(<<1>>, <<PyStr("a"), PyStr("b")>>),
      Ann(<<1>>, <<PyStr("b"), PyStr("a")>>),
      Ann(<<0>>, <<>>),
      PyStr("raw"),
      PyDict,
      PyLong(<<0>>),
      PyList(<<>>),
      PyList(<<PyLong(<<0>>)>>),
      PyList(<<PyLong(<<0>>), PyList(<<PyStr("1")>>), PyStr("z")>>),
      PyTuple(<<PyLong(<<0>>), PyList(<<PyStr("1")>>)>>),
      PyList(<<PyStr("0"), PyList(<<PyStr("1")>>)>>),
      Ann(<<2>>, <<PyStr("x")>>),
      Ann(<<5>>, <<PyStr("x")>>),
      Ann(<<-1>>, <<PyStr("x")>>),
      Ann(<<0, 1>>, <<PyStr("x")>>),
      Ann(<<1, 1>>, <<PyStr("x")>>),
      Ann(<<0, 0, 1>>, <<PyStr("x")>>),
      PyList(<<PyLong(<<0>>), PyTuple(<<PyStr("1")>>)>>),
      PyList(<<PyLong(<<0>>), PyStr("1")>>),
      PyList(<<PyLong(<<1>>), PyList(<<PyLong(<<1>>)>>)>>),
      PyList(<<PyLong(<<1>>), PyList(<<PyStr("a"), PyDict>>)>>),
      PyList(<<PyLong(<<5>>), PyStr("x")>>),
      PyList(<<PyStr("5"), PyStr("x")>>) }

StageEmissions ==
    {Emission(100, 110, d) : d \in StagePayloads}
        \cup {Emission(7, 3, Ann(<<1>>, <<PyStr("a"), PyStr("b")>>))}

\* The argument tuples of put: well-formed ones with every output ID from
\* -1 to the first one that is not registered, and one PyArg_ParseTuple
\* rejects.
PutArgs(self, E) ==
    { [ok |-> TRUE, start_sample |-> e.start_sample,
       end_sample |-> e.end_sample, output_id |-> h, data |-> e.data,
       output_type |-> 0, proto_id |-> ""] :
        e \in E,
        h \in IF self \in DI THEN -1..Len(pd_output[self]) ELSE {0} }
      \cup {NoArgs}

\* The argument tuples of add: one per (output type, protocol id) of T, and
\* one PyArg_ParseTuple rejects.
AddArgs(T) ==
    { [ok |-> TRUE, start_sample |-> 0, end_sample |-> 0, output_id |-> 0,
       data |-> PyDict, output_type |-> t[1], proto_id |-> t[2]] : t \in T }
      \cup {NoArgs}

\* The streams a decoder declares: the three output types, a type value
\* that is none of them, an empty protocol id.
Streams4 ==
    { <<SRD_OUTPUT_ANN, "uart">>, <<SRD_OUTPUT_PROTO, "uart">>,
      <<SRD_OUTPUT_BINARY, "">>, <<7, "spi">> }

\* ----------------------------------------------------------- specifications
\* The stacked session: every decoder adds streams and emits, decode() of a
\* stacked decoder may emit in turn.
Next ==
    \/ \E self \in Running, args \in AddArgs(Streams4) :
          Decoder_add(self, args)
    \/ \E self \in Running :
          \E args \in PutArgs(self, ChainEmissions) : Decoder_put(self, args)
    \/ CallDecode
    \/ \E raised \in BOOLEAN : DecodeReturns(raised)
    \/ PutLoopEnds

Spec == Init /\ [][Next]_vars

\* One decoder with nothing stacked on it, tried with every payload shape.
Stage == NumInst

NextStage ==
    \/ \E self \in Running \cap {Stage, NoInst}, args \in AddArgs(Streams4) :
          Decoder_add(self, args)
    \/ \E self \in Running \cap {Stage, NoInst} :
          \E args \in PutArgs(self, StageEmissions) : Decoder_put(self, args)
    \/ PutLoopEnds

SpecStage == Init /\ [][NextStage]_vars

\* The stacked session with its progress: the C code of put takes its next
\* step (the loop calls the next decode(), the finished loop returns), and
\* every decode() that is running returns after finitely many puts and adds
\* of its own, so at each nesting depth the return of decode() cannot be
\* put off forever.
LiveStreams == { <<SRD_OUTPUT_ANN, "uart">>, <<SRD_OUTPUT_PROTO, "uart">> }

LiveEmissions == { Emission(7, 3, PyStr("raw")) }

NextLive ==
    \/ \E self \in Running, args \in AddArgs(LiveStreams) :
          Decoder_add(self, args)
    \/ \E self \in Running :
          \E args \in PutArgs(self, LiveEmissions) : Decoder_put(self, args)
    \/ CallDecode
    \/ \E raised \in BOOLEAN : DecodeReturns(raised)
    \/ PutLoopEnds

DecodeReturnsAt(d) ==
    Len(stack) = d /\ \E raised \in BOOLEAN : DecodeReturns(raised)

Progress ==
    /\ WF_vars(CallDecode)
    /\ WF_vars(PutLoopEnds)
    /\ \A d \in 1..MaxDepth : SF_vars(DecodeReturnsAt(d))

SpecLive == Init /\ [][NextLive]_vars /\ Progress

\* ------------------------------------------------------------------- claims
Put == done.op = "put"
\* The put built its data unit and reached the switch on the output type.
Dispatched == Put /\ done.pdo # NULL
DonePdo == done.pdo[1]

\* The decode() calls a protocol put on self owes to its first n successors.
OwedCalls(self, args, n) ==
    [k \in 1..n |-> [di |-> next_di[self][k],
                     start_sample |-> args.start_sample,
                     end_sample |-> args.end_sample,
                     data |-> args.data]]

\* C1: a put on a Protocol stream calls decode() of each successor of the
\* emitting instance exactly once, in the order of next_di, each time with
\* the start, end and payload given to put, also after a decode() that
\* failed; while the put is in progress it has made exactly the calls owed
\* to the successors it has reached.
C1_ProtocolFanOut ==
    /\ (Put /\ done.branch = "protocol") =>
          done.decode_calls =
              OwedCalls(done.self, done.args, Len(next_di[done.self]))
    /\ \A i \in 1..Len(stack) :
          stack[i].f.decode_calls =
              OwedCalls(stack[i].self, stack[i].args,
                        IF stack[i].pc = "decode" THEN stack[i].l
                        ELSE stack[i].l - 1)

\* A protocol put with two successors returned although decode() of the
\* first one failed.
C1_Witness ==
    /\ Put /\ done.branch = "protocol"
    /\ Len(next_di[done.self]) = 2
    /\ Len(done.decode_calls) = 2
    /\ done.log # <<>>
    /\ done.log[1] = Msg("calling decode()", next_di[done.self][1])

\* C2: a put whose output ID is at least the number of streams of the
\* emitting instance fails with the invalid-output-ID diagnostic and calls
\* neither a callback nor decode(), whatever the payload and the callbacks.
C2_InvalidHandle ==
    (/\ Put /\ done.self \in DI /\ done.args.ok
     /\ done.args.output_id >= Len(pd_output[done.self]))
    => /\ done.ret = "NULL"
       /\ done.branch = "invalid output ID"
       /\ done.log = <<Msg("invalid output ID", done.args.output_id)>>
       /\ done.cb_calls = <<>>
       /\ done.decode_calls = <<>>
       /\ done.allocs = {}

\* An annotation with a registered format went to the output ID just past
\* the streams of an instance that has streams and successors, with a
\* callback registered.
C2_Witness ==
    /\ Put /\ done.self \in DI /\ done.args.ok
    /\ pd_output[done.self] # <<>>
    /\ done.args.output_id = Len(pd_output[done.self])
    /\ next_di[done.self] # <<>>
    /\ callbacks # {}
    /\ done.args.data = Ann(<<0>>, <<PyStr("1")>>)
    /\ done.ret = "NULL"

\* C3 (as claimed): the five dispatch errors leave put returning normally;
\* only a failure at the scripting boundary makes put return a failure.
C3_Contained ==
    Put =>
      /\ done.branch \in {"invalid output ID", "annotation", "protocol",
                          "binary", "invalid output type"}
            => done.ret = "None"
      /\ done.ret = "NULL" => done.branch \in {"bad arguments", "no instance"}

\* C4: the handle an add returns is the 0-based insertion index of its
\* descriptor; a put with that handle resolves to the descriptor that add
\* registered, whatever was added since.
C4_HandleStable ==
    /\ \A di \in DI : \A k \in 1..Len(handles[di]) :
          /\ handles[di][k].ret = k - 1
          /\ k <= Len(pd_output[di])
          /\ pd_output[di][k].output_type = handles[di][k].output_type
          /\ pd_output[di][k].proto_id = handles[di][k].proto_id
    /\ (done.op = "add" /\ done.ret = "int") =>
          /\ done.value = Len(handles[done.self]) - 1
          /\ handles[done.self][done.value + 1].output_type
                = done.args.output_type
          /\ handles[done.self][done.value + 1].proto_id = done.args.proto_id
    /\ (/\ Put /\ done.self \in DI /\ done.args.ok
        /\ done.args.output_id \in 0..(Len(handles[done.self]) - 1))
       => /\ done.branch # "invalid output ID"
          /\ Dispatched =>
               /\ DonePdo.output_type
                     = handles[done.self][done.args.output_id + 1].output_type
               /\ DonePdo.proto_id
                     = handles[done.self][done.args.output_id + 1].proto_id

\* A put with handle 0 resolved to the first of two different streams of
\* its instance.
C4_Witness ==
    /\ Dispatched
    /\ done.args.output_id = 0
    /\ Len(handles[done.self]) = 2
    /\ handles[done.self][1].output_type # handles[done.self][2].output_type
    /\ DonePdo.output_type = handles[done.self][1].output_type

\* The payload is a list [format id, [string, ...]] whose format id is the
\* position of a format the decoder of di registered.
WellFormed(obj, di) ==
    /\ obj.tp = "list"
    /\ Len(obj.items) = 2
    /\ obj.items[1].tp = "int"
    /\ Len(obj.items[1].long) = 1
    /\ obj.items[1].long[1] \in 0..(Len(annotations(di)) - 1)
    /\ obj.items[2].tp = "list"
    /\ \A i \in 1..Len(obj.items[2].items) : obj.items[2].items[i].tp = "str"

Strings(obj) ==
    [i \in 1..Len(obj.items[2].items) |-> obj.items[2].items[i].str]

AnnPut == Dispatched /\ DonePdo.output_type = SRD_OUTPUT_ANN

\* C5: for a payload [format id, [s1..sn]] with a registered format id the
\* converter succeeds (nothing is logged) and, a callback being registered,
\* the callback is called exactly once, with the put's start and end, that
\* format id and the strings s1..sn in their order.
C5_AnnotationDelivered ==
    (AnnPut /\ WellFormed(done.args.data, done.self)) =>
       /\ done.log = <<>>
       /\ done.ret = "None"
       /\ srd_find_callback(SRD_OUTPUT_ANN) # NULL =>
            done.cb_calls =
               << [start_sample |-> done.args.start_sample,
                   end_sample |-> done.args.end_sample,
                   pdo |-> DonePdo,
                   ann_format |-> done.args.data.items[1].long[1],
                   data |-> <<Strings(done.args.data)>>] >>

\* The callback received format 1 with the strings "a", "b".
C5_Witness ==
    /\ AnnPut
    /\ WellFormed(done.args.data, done.self)
    /\ Len(done.cb_calls) = 1
    /\ done.cb_calls[1].ann_format = 1
    /\ done.cb_calls[1].data = << <<"a", "b">> >>
    /\ done.cb_calls[1].start_sample = 100

\* C6 (as claimed): for every payload that is not well-formed the converter
\* fails with a diagnostic, the callback is not called, and nothing the
\* emission allocated or wrote is left.
C6_MalformedRejected ==
    (/\ AnnPut
     /\ srd_find_callback(SRD_OUTPUT_ANN) # NULL
     /\ ~WellFormed(done.args.data, done.self)) =>
       /\ Len(done.log) = 1
       /\ done.cb_calls = <<>>
       /\ done.allocs = {}
       /\ done.ret = "None"

\* C7: a put that reaches the dispatch on an Annotation stream while no
\* callback is registered for annotations does nothing that can be
\* observed (no callback, no decode(), no conversion, no diagnostic) and
\* returns None, for every payload.
C7_NoCallbackNoEffect ==
    (AnnPut /\ srd_find_callback(SRD_OUTPUT_ANN) = NULL) =>
       /\ done.ret = "None"
       /\ done.cb_calls = <<>>
       /\ done.decode_calls = <<>>
       /\ done.log = <<>>
       /\ done.allocs = {}
       /\ done.increfs = 0

\* Without a callback, a payload the converter would reject went to an
\* Annotation stream.
C7_Witness ==
    /\ AnnPut
    /\ callbacks = {}
    /\ ~WellFormed(done.args.data, done.self)
    /\ done.ret = "None"

\* C8 (as claimed): when a put has returned, nothing it allocated is live.
C8_AllReleased ==
    Put => done.allocs = {}

Recognized == {SRD_OUTPUT_ANN, SRD_OUTPUT_PROTO, SRD_OUTPUT_BINARY}

\* C9 (as claimed): no stream with an unrecognized output type or an empty
\* protocol id is ever registered.
C9_AddValidates ==
    \A di \in DI : \A k \in 1..Len(pd_output[di]) :
       /\ pd_output[di][k].output_type \in Recognized
       /\ pd_output[di][k].proto_id # ""

\* C10: a put that reaches the dispatch on a stream whose type is Binary or
\* no recognized type reports one diagnostic (naming the type value when it
\* is unrecognized), calls no callback and no decode(), and returns None.
C10_Dropped ==
    (Dispatched /\ DonePdo.output_type \notin {SRD_OUTPUT_ANN, SRD_OUTPUT_PROTO})
    => /\ done.ret = "None"
       /\ done.log =
            << IF DonePdo.output_type = SRD_OUTPUT_BINARY
               THEN Msg("SRD_OUTPUT_BINARY not yet supported", 0)
               ELSE Msg("invalid output type", DonePdo.output_type) >>
       /\ done.cb_calls = <<>>
       /\ done.decode_calls = <<>>

\* A Binary stream of an instance that has successors was put to, with a
\* callback registered.
C10_Witness ==
    /\ Dispatched
    /\ DonePdo.output_type = SRD_OUTPUT_BINARY
    /\ next_di[done.self] # <<>>
    /\ callbacks # {}
    /\ done.ret = "None"

\* C11: when pd_add declines (answers a negative number) add returns None,
\* a normal result; add returns a call failure exactly when its arguments
\* do not parse or self is no decoder instance; otherwise it returns the
\* handle.
C11_DeclineIsNone ==
    done.op = "add" =>
       /\ done.branch = "no stream" => done.ret = "None"
       /\ done.ret = "NULL" <=> (done.self \notin DI \/ ~done.args.ok)
       /\ done.ret = "int" <=> done.branch = "stream"
       /\ done.ret \in {"None", "NULL", "int"}

\* pd_add declined an add with well-formed arguments on an instance that
\* already has a stream.
C11_Witness ==
    /\ done.op = "add"
    /\ done.self \in DI
    /\ done.args.ok
    /\ done.branch = "no stream"
    /\ done.ret = "None"
    /\ pd_output[done.self] # <<>>

\* An ordered sequence container: a list or a tuple.
Sequence(obj) == obj.tp \in {"list", "tuple"}

\* The payload is a list or tuple (format id, sequence of strings) whose
\* format id is the position of a registered format.
WellFormedSeq(obj, di) ==
    /\ Sequence(obj)
    /\ Len(obj.items) = 2
    /\ obj.items[1].tp = "int"
    /\ Len(obj.items[1].long) = 1
    /\ obj.items[1].long[1] \in 0..(Len(annotations(di)) - 1)
    /\ Sequence(obj.items[2])
    /\ \A i \in 1..Len(obj.items[2].items) : obj.items[2].items[i].tp = "str"

\* C12 (as claimed): a payload that is a 2-element tuple, or whose second
\* element is a tuple of strings, is accepted like the corresponding lists:
\* nothing is logged and the callback receives the format id and strings.
C12_TupleAccepted ==
    (/\ AnnPut
     /\ srd_find_callback(SRD_OUTPUT_ANN) # NULL
     /\ WellFormedSeq(done.args.data, done.self)) =>
       /\ done.log = <<>>
       /\ Len(done.cb_calls) = 1
       /\ done.cb_calls[1].ann_format = done.args.data.items[1].long[1]
       /\ done.cb_calls[1].data = <<Strings(done.args.data)>>

\* The payload is a 2-element list whose first element is an integer.
HasFormatId(obj) ==
    /\ obj.tp = "list"
    /\ Len(obj.items) = 2
    /\ obj.items[1].tp = "int"

\* The integer is the position of a format the decoder of di registered.
Registered(py_int, di) ==
    /\ Len(py_int.long) = 1
    /\ py_int.long[1] \in 0..(Len(annotations(di)) - 1)

\* C13 (as claimed): every format id outside 0..number of formats - 1,
\* negative and wider than 32 bits included, is rejected with a diagnostic
\* and no callback; when the callback is called, the format id it receives
\* is the integer the decoder emitted.
C13_FormatIdChecked ==
    (/\ AnnPut
     /\ srd_find_callback(SRD_OUTPUT_ANN) # NULL
     /\ HasFormatId(done.args.data)) =>
       /\ ~Registered(done.args.data.items[1], done.self) =>
             /\ done.cb_calls = <<>>
             /\ done.log # <<>>
       /\ done.cb_calls # <<>> =>
             done.args.data.items[1].long = <<done.cb_calls[1].ann_format>>

\* The first of the six checks a payload violates, 0 when it passes all:
\* container kind, two elements, integer first, registered format id,
\* sequence second, strings only.
FirstViolated(obj, di) ==
    IF ~Sequence(obj) THEN 1
    ELSE IF Len(obj.items) # 2 THEN 2
    ELSE IF obj.items[1].tp # "int" THEN 3
    ELSE IF ~Registered(obj.items[1], di) THEN 4
    ELSE IF ~Sequence(obj.items[2]) THEN 5
    ELSE IF \E i \in 1..Len(obj.items[2].items) :
               obj.items[2].items[i].tp # "str" THEN 6
    ELSE 0

\* The diagnostic of each check.
Diagnostic(k) ==
    CASE k = 1 -> "submitted instead of list"
      [] k = 2 -> "elements instead of 2"
      [] k = 3 -> "first element was not an integer"
      [] k = 4 -> "unregistered annotation format"
      [] k = 5 -> "second element was not a list"
      [] k = 6 -> "second element was malformed"

\* C14 (as claimed): the converter reports exactly the diagnostic of the
\* first check the payload violates, nothing when it violates none, and the
\* six diagnostics differ from one another.
C14_FirstFailureReported ==
    /\ \A j, k \in 1..6 : j # k => Diagnostic(j) # Diagnostic(k)
    /\ (AnnPut /\ srd_find_callback(SRD_OUTPUT_ANN) # NULL) =>
         LET k == FirstViolated(done.args.data, done.self) IN
            IF k = 0 THEN done.log = <<>>
            ELSE /\ Len(done.log) = 1
                 /\ done.log[1].msg = Diagnostic(k)
                 /\ done.cb_calls = <<>>

\* C15: dispatch is synchronous and depth-first.  While a nested put is in
\* progress every put below it stays as it is, waiting in the decode() call
\* it made: that decode() does not return, the next successor is not called,
\* the put does not return, its arguments and its place in the successor
\* list do not change.  A nested put is made by the instance whose decode()
\* is running, and when it returns it returns to exactly that decode().
C15_DepthFirst ==
    [][ /\ \A i \in 1..(Len(stack) - 1) :
              /\ stack[i].pc = "decode"
              /\ i <= Len(stack')
              /\ stack'[i] = stack[i]
        /\ Len(stack') > Len(stack) =>
              /\ Len(stack') = Len(stack) + 1
              /\ stack # <<>> =>
                    /\ Top.pc = "decode"
                    /\ stack'[Len(stack')].self = Callee(Top)
        /\ Len(stack') < Len(stack) =>
              /\ Len(stack') = Len(stack) - 1
              /\ Top.pc = "loop" /\ Top.l > Len(next_di[Top.self])
              /\ done'.op = "put" /\ done'.self = Top.self
              /\ done'.depth = Len(stack')
        /\ (Len(stack') = Len(stack) /\ stack' # stack) =>
              /\ stack'[Len(stack)].self = Top.self
              /\ stack'[Len(stack)].args = Top.args
              /\ stack'[Len(stack)].l \in {Top.l, Top.l + 1}
      ]_vars

\* A nested protocol put that called decode() itself has returned into the
\* first decode() call of an outer put that has two successors.
C15_Witness ==
    /\ Len(stack) = 1 /\ Top.pc = "decode" /\ Top.l = 1
    /\ Len(next_di[Top.self]) = 2
    /\ Put /\ done.depth = 1 /\ done.branch = "protocol"
    /\ done.self = Callee(Top)
    /\ done.decode_calls # <<>>

\* C16: every put eventually returns to its caller.  A put in progress at
\* any nesting depth d leads to that put having returned: the stack is back
\* to the d - 1 calls below it and the call that returned last is a put on
\* a protocol stream made at that depth.
C16_PutReturns ==
    \A d \in 1..MaxDepth :
        (Len(stack) >= d) ~>
            (/\ Len(stack) = d - 1
             /\ Put /\ done.branch = "protocol" /\ done.ret = "None"
             /\ done.depth = d - 1)

\* The outermost put has returned after both decode() calls it made, the
\* first of which failed.
C16_Witness ==
    /\ stack = <<>>
    /\ Put /\ done.branch = "protocol" /\ done.depth = 0
    /\ Len(next_di[done.self]) = 2
    /\ Len(done.decode_calls) = 2
    /\ Len(done.log) >= 1

\* The elements of a sequence.
Range(seq) == {seq[i] : i \in 1..Len(seq)}

\* What a put on a protocol stream may have done: no callback call, no
\* converted annotation, no diagnostic but those of failed decode() calls,
\* decode() calls only on successors of the emitting instance.
ProtocolOnly(self, f) ==
    /\ f.cb_calls = <<>>
    /\ "ann" \notin f.allocs
    /\ \A i \in 1..Len(f.log) : f.log[i].msg = "calling decode()"
    /\ \A i \in 1..Len(f.decode_calls) :
          /\ f.decode_calls[i].di \in Range(next_di[self])
          /\ f.decode_calls[i].di # self

\* C17: routing of a put is decided by the declared type of the resolved
\* stream alone.  A put on an annotation stream calls no decode(); a put on
\* a protocol stream, returned or in progress, calls neither the annotation
\* callback nor the converter and calls decode() only on successors of the
\* emitting instance; and the branch taken is the one of the stream's type,
\* whatever the payload, the callbacks and the successors.
C17_RoutedByType ==
    /\ Dispatched =>
          /\ DonePdo.output_type = SRD_OUTPUT_ANN <=> done.branch = "annotation"
          /\ DonePdo.output_type = SRD_OUTPUT_PROTO <=> done.branch = "protocol"
          /\ done.branch = "annotation" =>
                (done.decode_calls = <<>> /\ done.increfs = 0)
          /\ done.branch = "protocol" => ProtocolOnly(done.self, done)
    /\ \A i \in 1..Len(stack) :
          /\ stack[i].f.pdo[1].output_type = SRD_OUTPUT_PROTO
          /\ ProtocolOnly(stack[i].self, stack[i].f)

\* A well-formed annotation payload went to a protocol stream of an
\* instance with two successors while the annotation callback was
\* registered, and an annotation stream exists on the same instance.
C17_Witness ==
    /\ Put /\ done.branch = "protocol" /\ done.self \in DI
    /\ done.args.data = Ann(<<0>>, <<PyStr("1")>>)
    /\ srd_find_callback(SRD_OUTPUT_ANN) # NULL
    /\ Len(done.decode_calls) = 2
    /\ \E i \in 1..Len(pd_output[done.self]) :
          pd_output[done.self][i].output_type = SRD_OUTPUT_ANN

\* C18: put leaves the dispatch structures as they are.  Every step of a
\* put, on every branch and every failure (its entry and return, each
\* decode() call, each return of decode(), the return after the loop),
\* leaves the output streams of every instance, every successor list and
\* the callback table unchanged; only a step of add, which leaves the puts
\* in progress alone, changes any of them.
C18_PutFrame ==
    [][ (stack' # stack \/ done'.op # "add")
            => UNCHANGED <<pd_output, next_di, callbacks>>
      ]_vars

\* A protocol put has returned after two decode() calls, one of which
\* failed, on an instance that registered two streams, with a callback in
\* the table.
C18_Witness ==
    /\ Put /\ done.branch = "protocol" /\ done.self \in DI
    /\ Len(done.decode_calls) = 2 /\ Len(done.log) = 1
    /\ Len(pd_output[done.self]) = 2
    /\ Len(handles[done.self]) = 2
    /\ next_di[done.self] = Stacked(done.self)
    /\ callbacks = {SRD_OUTPUT_ANN}

====
